---- MODULE Spec2Model ----
(***************************************************************************)
(* Temporal-block data splitting and sequence extraction of                *)
(* src/tasks/classification.py (prepare_data, extract_features_labels).    *)
(*                                                                         *)
(* Time indices are naturals.  A FeatureMatrix is represented by its key   *)
(* (the time index it belongs to), a window by the sequence of the time    *)
(* indices whose matrices are stacked, a label by 0 or 1.                  *)
(***************************************************************************)
EXTENDS Integers, Sequences, FiniteSets

(***************************************************************************)
(* Bounds of the model.                                                    *)
(***************************************************************************)
\* Largest number of time indices in the store.
MaxN == 55
\* Time buckets per day.  The code has 24 hourly buckets per day
\* (block_size = 24 * 7 or 24 * 6); the model scales the day down.
BucketsPerDay == 1
\* Largest historical window length args.n_his.
MaxNHis == 2
\* Time indices are drawn from 0 .. MaxT when the extractor is driven alone.
MaxT == 4
\* Largest window length n_his when the extractor is driven alone.
MaxWindow == 3
\* The value left out of the store's time indices when the store has a gap.
GapAt == 3
\* The time index whose FeatureMatrix is absent when the store lacks one.
MissingAt == 1
\* Largest store taken with a gap, in descending order, with a missing
\* FeatureMatrix or with a window longer than 1.
MaxVariedN == 15
\* Largest store of the repeated runs.
MaxRerunN == 31
\* Largest args.seed.
MaxSeed == 3
\* Number of states of the random generator.
RngMod == 16
\* Largest args.epochs.
MaxEpochs == 4
\* Largest patience of an EarlyStopping object.
MaxPatience == 2
\* Largest delta of an EarlyStopping object built directly.
MaxDelta == 1
\* Validation losses are drawn from 0 .. MaxLoss.
MaxLoss == 2
\* Largest number of calls of an EarlyStopping object driven alone.
MaxCalls == 4
\* Largest number of add_measurement calls on a Device.
MaxMeasurements == 4
\* Measurement URIs are drawn from 1 .. MaxUris.
MaxUris == 2
\* Largest args.stblock_num.
MaxStBlocks == 4
\* Largest number of dynamic adjacency matrices provided.
MaxDyn == 3

(***************************************************************************)
(* Program constants.                                                      *)
(***************************************************************************)
\* block_size = 24 * 7
DaysWithSundays == 7
\* block_size = 24 * 6
DaysWithoutSundays == 6

sampling_pattern == <<"train", "train", "train", "test", "val">>

SplitNames == {"train", "val", "test"}

(***************************************************************************)
(* Helpers: Python list operations.                                        *)
(***************************************************************************)
SeqSet(s) == {s[k] : k \in 1..Len(s)}

Reverse(s) == [k \in 1..Len(s) |-> s[Len(s) + 1 - k]]

\* Number of positions of s holding x.
Count(s, x) == Cardinality({k \in 1..Len(s) : s[k] = x})

IsAscending(s) == \A k \in 1..(Len(s) - 1) : s[k] < s[k + 1]

\* The list s in ascending order, equal elements in their order in s: a list
\* already in order is left as it is, otherwise the element at position i of s
\* goes to position Rank[i].
Ranked(s) ==
    LET n == Len(s)
        Rank == [i \in 1..n |->
                    Cardinality({j \in 1..n : s[j] < s[i] \/ (s[j] = s[i] /\ j < i)}) + 1]
    IN  IF \A k \in 1..(n - 1) : s[k] <= s[k + 1] THEN s
        ELSE [k \in 1..n |-> s[CHOOSE i \in 1..n : Rank[i] = k]]

\* sorted(s, reverse=True): the bug of sorting the wrong way round.
SortedDescending(s) == Reverse(Ranked(s))

\* sorted(s) / s.sort(): ascending order.
Sorted(s) == Ranked(s)

\* The bug of sorting in place (l.sort()): the caller's list is reordered.
ListSortedInPlace(l) == Sorted(l)

\* The list l after sorted(l): sorted builds a new list and leaves l alone.
ListAfterSorted(l) == l

\* s[lo:hi] with 0-based lo, exclusive hi, clipped to the list as Python does.
Slice(s, lo, hi) ==
    LET h == IF hi > Len(s) THEN Len(s) ELSE hi
    IN  IF lo >= h THEN <<>> ELSE SubSeq(s, lo + 1, h)

\* Position of the first occurrence of x in s (x occurs in s).
FirstIndex(s, x) == CHOOSE k \in 1..Len(s) : s[k] = x /\ \A j \in 1..(k - 1) : s[j] # x

\* The bug of dropping every occurrence of x instead of the first one.
RemoveAll(s, x) ==
    LET keep == {k \in 1..Len(s) : s[k] # x}
        RECURSIVE Pick(_)
        Pick(k) == IF k > Len(s) THEN <<>>
                   ELSE IF k \in keep THEN <<s[k]>> \o Pick(k + 1) ELSE Pick(k + 1)
    IN  Pick(1)

\* list.remove(x): drops the first occurrence of x.
Remove(s, x) ==
    LET p == FirstIndex(s, x)
    IN  SubSeq(s, 1, p - 1) \o SubSeq(s, p + 1, Len(s))


(***************************************************************************)
(* State.                                                                  *)
(***************************************************************************)
VARIABLES
    \* args
    include_sundays,     \* args.include_sundays
    n_his,               \* args.n_his
    seed,                \* args.seed
    \* torch_input: the Feature/Label store
    store_time_indices,  \* torch_input["time_indices"], in the order stored
    feature_matrices,    \* key set of torch_input["feature_matrices"]
    labels,              \* torch_input["labels"]: time index -> 0 or 1
    \* locals of prepare_data
    time_indices,        \* sorted(torch_input["time_indices"])
    blocks,
    current_pattern,
    assigned,            \* split_type drawn for block 1, 2, ... (the log of line 212)
    train_indices,
    val_indices,
    test_indices,
    samples,             \* (X_train, y_train), (X_val, y_val), (X_test, y_test)
    \* the last call of extract_features_labels
    ex_arg,              \* the caller's list passed as indices
    ex_indices,          \* the local indices = sorted(indices)
    X_list,
    y_list,
    \* control
    pc,
    raised,              \* the exception that ended the run, or "none"
    \* numpy's global random generator, and the repetition of main
    rng,
    run,
    first_assigned,
    first_splits,
    \* train_model and its EarlyStopping object
    epochs,              \* args.epochs
    epoch,               \* the loop variable of line 430
    val_loss,            \* the validation loss handed to early_stopping
    es,                  \* the fields of the EarlyStopping object
    tensors,             \* the values of the tensors in memory, by tensor
    hist,                \* history: calls, checkpoints, epochs run, checkpointed value
    \* Device
    measurements,
    properties,
    measurements_by_property,
    \* the graph shift operators
    stblock_num,         \* args.stblock_num
    dynamic_adjacencies, \* torch_input["dynamic_adjacencies"], in chronological order
    gso

train_vars  == <<epochs, epoch, val_loss, es, tensors, hist>>
device_vars == <<measurements, properties, measurements_by_property>>
gso_vars    == <<stblock_num, dynamic_adjacencies, gso>>
ext_vars    == <<train_vars, device_vars, gso_vars>>

vars == <<include_sundays, n_his, seed, store_time_indices, feature_matrices, labels,
          time_indices, blocks, current_pattern, assigned, train_indices, val_indices,
          test_indices, samples, ex_arg, ex_indices, X_list, y_list, pc, raised,
          rng, run, first_assigned, first_splits, ext_vars>>

prep_vars  == <<include_sundays, n_his, seed, store_time_indices, feature_matrices, labels,
                time_indices, blocks, current_pattern, assigned, train_indices,
                val_indices, test_indices, samples, ex_arg, ex_indices, X_list, y_list,
                raised, rng, run, first_assigned, first_splits>>

args_vars  == <<include_sundays, n_his, seed>>
store_vars == <<store_time_indices, feature_matrices, labels>>
split_vars == <<train_indices, val_indices, test_indices>>
call_vars  == <<ex_arg, ex_indices, X_list, y_list>>
rerun_vars == <<rng, run, first_assigned, first_splits>>

(***************************************************************************)
(* prepare_data: blocks.                                                   *)
(***************************************************************************)
\* Lines 162-168.
block_size ==
    IF include_sundays THEN BucketsPerDay * DaysWithSundays
    ELSE BucketsPerDay * DaysWithoutSundays

\* The bug of a slice one element too long: time_indices[i:i+block_size+1].
BlockAtOverlapping(t, i, L) == Slice(t, i, i + L + 1)

\* Line 174: block = time_indices[i:i+block_size].
BlockAt(t, i, L) == Slice(t, i, i + L)

\* Lines 171-175: for i in range(0, len(time_indices), block_size).
RECURSIVE BlocksFrom(_, _, _, _)
BlocksFrom(t, i, L, acc) ==
    IF i >= Len(t) THEN acc
    ELSE BlocksFrom(t, i + L, L, Append(acc, BlockAt(t, i, L)))

CreatedBlocks(t, L) == BlocksFrom(t, 0, L, <<>>)

(***************************************************************************)
(* prepare_data: assignment of one block.                                  *)
(***************************************************************************)
\* The bug of a missing final branch: a block drawn for "test" is dropped.
ExtendedNoElse(lists, split_type, block) ==
    IF split_type = "train" THEN [lists EXCEPT !.train = @ \o block]
    ELSE IF split_type = "val" THEN [lists EXCEPT !.val = @ \o block]
    ELSE lists

\* The bug of extending the validation list by the block's first index only.
ExtendedValHead(lists, split_type, block) ==
    IF split_type = "train" THEN [lists EXCEPT !.train = @ \o block]
    ELSE IF split_type = "val" THEN [lists EXCEPT !.val = @ \o SubSeq(block, 1, 1)]
    ELSE [lists EXCEPT !.test = @ \o block]

\* The bug of treating a short final block specially: it always goes to train.
ExtendedShortToTrain(lists, split_type, block) ==
    IF split_type = "train" \/ Len(block) < block_size
    THEN [lists EXCEPT !.train = @ \o block]
    ELSE IF split_type = "val" THEN [lists EXCEPT !.val = @ \o block]
    ELSE [lists EXCEPT !.test = @ \o block]

\* Lines 200-206: the three lists after block is assigned to split_type.
Extended(lists, split_type, block) ==
    IF split_type = "train" THEN [lists EXCEPT !.train = @ \o block]
    ELSE IF split_type = "val" THEN [lists EXCEPT !.val = @ \o block]
    ELSE [lists EXCEPT !.test = @ \o block]

\* Lines 192-194: the pattern is replenished only when it is empty.
Replenished(pattern) == IF pattern = <<>> THEN sampling_pattern ELSE pattern

Splits == [train |-> train_indices, val |-> val_indices, test |-> test_indices]

\* Lines 191-212, one iteration of the loop; r is the position np.random.choice
\* picks in the current pattern.
AssignBlockAt(r) ==
    /\ pc = "assign"
    /\ Len(assigned) < Len(blocks)
    /\ LET pattern    == Replenished(current_pattern)
           split_type == pattern[r]
           block      == blocks[Len(assigned) + 1]
           lists      == Extended(Splits, split_type, block)
       IN  /\ r \in 1..Len(pattern)
           /\ current_pattern' = Remove(pattern, split_type)
           /\ assigned' = Append(assigned, split_type)
           /\ train_indices' = lists.train
           /\ val_indices' = lists.val
           /\ test_indices' = lists.test
    /\ UNCHANGED <<ext_vars, args_vars, store_vars, time_indices, blocks, samples, call_vars,
                   pc, raised, run, first_assigned, first_splits>>

(***************************************************************************)
(* extract_features_labels.                                                *)
(***************************************************************************)
\* Line 319: time_window = indices[i - n_his + 1 : i + 1], for the 0-based i.
TimeWindow(idx, i, nh) == Slice(idx, i - nh + 1, i + 1)

\* Line 322: all(t in feature_matrices for t in time_window).
AllPresent(fm, time_window) ==
    \A k \in 1..Len(time_window) : time_window[k] \in fm

\* The bug of taking the label of the first timestep of the window.
WindowLabelFirst(lab, idx, i, nh) == lab[idx[(i - nh + 1) + 1]]

\* Line 333: labels[indices[i]], for the 0-based i.
WindowLabel(lab, idx, i, nh) == lab[idx[i + 1]]

\* Lines 319-333: what the iteration at the 0-based position i appends to
\* X_list and y_list: nothing, or one window and its label.
Iteration(fm, lab, idx, nh, i) ==
    LET time_window == TimeWindow(idx, i, nh)
    IN  IF ~AllPresent(fm, time_window) THEN <<>>
        ELSE <<[x_seq |-> time_window, y |-> WindowLabel(lab, idx, i, nh)]>>

\* Line 318: the iterations lo, lo + 1, ..., hi in this order (the range is
\* halved so that the evaluation stays shallow).
RECURSIVE Iterations(_, _, _, _, _, _)
Iterations(fm, lab, idx, nh, lo, hi) ==
    IF lo > hi THEN <<>>
    ELSE IF lo = hi THEN Iteration(fm, lab, idx, nh, lo)
    ELSE LET mid == (lo + hi) \div 2
         IN  Iterations(fm, lab, idx, nh, lo, mid) \o Iterations(fm, lab, idx, nh, mid + 1, hi)

\* Lines 312-333: for i in range(n_his - 1, len(indices)).
ExtractLoop(fm, lab, idx, nh) ==
    LET out == Iterations(fm, lab, idx, nh, nh - 1, Len(idx) - 1)
    IN  [X_list |-> [k \in 1..Len(out) |-> out[k].x_seq],
         y_list |-> [k \in 1..Len(out) |-> out[k].y]]

\* Lines 336-337: torch.stack of an empty list raises RuntimeError
\* ("stack expects a non-empty TensorList").
StackRaises(Xl) == IF Xl = <<>> THEN "RuntimeError" ELSE "none"

\* Lines 308-342: the caller's list after the call, the local indices, the two
\* lists and the exception raised.
extract_features_labels(fm, lab, indices, nh) ==
    LET idx == Sorted(indices)
        out == ExtractLoop(fm, lab, idx, nh)
    IN  [arg |-> ListAfterSorted(indices),
         indices |-> idx, X_list |-> out.X_list, y_list |-> out.y_list,
         raised |-> StackRaises(out.X_list)]

(***************************************************************************)
(* prepare_data: the steps around the assignment loop.                     *)
(***************************************************************************)
\* Lines 158-160.
SortTimeIndices ==
    /\ pc = "prepare_data"
    /\ time_indices' = Sorted(store_time_indices)
    /\ store_time_indices' = ListAfterSorted(store_time_indices)
    /\ pc' = "blocks"
    /\ UNCHANGED <<ext_vars, args_vars, feature_matrices, labels, blocks, current_pattern, assigned, split_vars,
                   samples, call_vars, raised, rerun_vars>>

\* Lines 170-189.
CreateBlocks ==
    /\ pc = "blocks"
    /\ blocks' = CreatedBlocks(time_indices, block_size)
    /\ current_pattern' = sampling_pattern
    /\ train_indices' = <<>>
    /\ val_indices' = <<>>
    /\ test_indices' = <<>>
    /\ pc' = "assign"
    /\ UNCHANGED <<ext_vars, args_vars, store_vars, time_indices, assigned, samples, call_vars,
                   raised, rerun_vars>>

\* Line 197 with the generator in a state the caller does not control: any
\* position of the current pattern may be drawn.
AssignBlock ==
    /\ \E r \in 1..Len(sampling_pattern) : AssignBlockAt(r)
    /\ UNCHANGED rng

\* The bug of sorting the splits in descending order.
SortedSplitsDescending(lists) ==
    [train |-> SortedDescending(lists.train), val |-> SortedDescending(lists.val),
     test |-> SortedDescending(lists.test)]

\* Lines 214-217.
SortedSplits(lists) ==
    [train |-> Sorted(lists.train), val |-> Sorted(lists.val), test |-> Sorted(lists.test)]

SortSplits ==
    /\ pc = "assign"
    /\ Len(assigned) = Len(blocks)
    /\ LET lists == SortedSplits(Splits)
       IN  /\ train_indices' = lists.train
           /\ val_indices' = lists.val
           /\ test_indices' = lists.test
    /\ pc' = "diagnostics"
    /\ UNCHANGED <<ext_vars, args_vars, store_vars, time_indices, blocks, current_pattern, assigned,
                   samples, call_vars, raised, rerun_vars>>

\* Lines 226-229: min() and max() of an empty list raise ValueError
\* ("min() arg is an empty sequence").
DiagnosticsRaises(lists) ==
    IF lists.train = <<>> \/ lists.val = <<>> \/ lists.test = <<>>
    THEN "ValueError" ELSE "none"

\* Lines 219-250.
Diagnostics ==
    /\ pc = "diagnostics"
    /\ raised' = DiagnosticsRaises(Splits)
    /\ pc' = IF raised' = "none" THEN "extract_train" ELSE "raised"
    /\ UNCHANGED <<ext_vars, args_vars, store_vars, time_indices, blocks, current_pattern, assigned,
                   split_vars, samples, call_vars, rerun_vars>>

\* One call of extract_features_labels(torch_input, indices, n_his=args.n_his).
Call(indices) ==
    LET r == extract_features_labels(feature_matrices, labels, indices, n_his)
    IN  /\ ex_arg' = r.arg
        /\ ex_indices' = r.indices
        /\ X_list' = r.X_list
        /\ y_list' = r.y_list
        /\ raised' = r.raised

Returned == [X |-> X_list', y |-> y_list']

\* Lines 253-255: one of the three calls, and the assignment of its result.
ExtractSplit(here, name, indices, next) ==
    /\ pc = here
    /\ Call(indices)
    /\ IF raised' = "none"
       THEN /\ samples' = [s \in DOMAIN samples \cup {name} |->
                              IF s = name THEN Returned ELSE samples[s]]
            /\ pc' = next
       ELSE /\ samples' = samples
            /\ pc' = "raised"
    /\ UNCHANGED <<ext_vars, args_vars, store_vars, time_indices, blocks, current_pattern, assigned,
                   split_vars, rerun_vars>>

ExtractTrain == ExtractSplit("extract_train", "train", train_indices, "extract_val")

\* The bug of passing the training list to the validation call.
ExtractValFromTrain == ExtractSplit("extract_val", "val", train_indices, "extract_test")

ExtractVal == ExtractSplit("extract_val", "val", val_indices, "extract_test")

ExtractTest == ExtractSplit("extract_test", "test", test_indices, "prepared")

(***************************************************************************)
(* The stores prepare_data is run on.                                      *)
(***************************************************************************)
\* n ascending time indices from 0 on; with a gap the value GapAt is left out.
Ascending(n, gap) == [k \in 1..n |-> IF gap /\ k - 1 >= GapAt THEN k ELSE k - 1]

StoreLists(n) == {Ascending(n, FALSE), Ascending(n, TRUE), Reverse(Ascending(n, FALSE))}

NoSamples == [s \in {} |-> <<>>]

NoSplits == [train |-> <<>>, val |-> <<>>, test |-> <<>>]

InitLocals ==
    /\ time_indices = <<>>
    /\ blocks = <<>>
    /\ current_pattern = <<>>
    /\ assigned = <<>>
    /\ train_indices = <<>>
    /\ val_indices = <<>>
    /\ test_indices = <<>>
    /\ samples = NoSamples
    /\ ex_indices = <<>>
    /\ X_list = <<>>
    /\ y_list = <<>>
    /\ raised = "none"

\* The stores of n time indices: the plain one (ascending, no gap, every
\* FeatureMatrix present, n_his = 1) for every n, the others for the small n.
Stores(n) ==
    {[store |-> Ascending(n, FALSE), keys |-> SeqSet(Ascending(n, FALSE)), n_his |-> 1]}
    \cup (IF n > MaxVariedN THEN {}
          ELSE UNION {{[store |-> s, keys |-> k, n_his |-> h] :
                          k \in {SeqSet(s), SeqSet(s) \ {MissingAt}},
                          h \in 1..MaxNHis} :
                      s \in StoreLists(n)})

InitStore(st) ==
    /\ store_time_indices = st.store
    /\ feature_matrices = st.keys
    /\ labels = [t \in SeqSet(st.store) |-> t % 2]
    /\ n_his = st.n_his

\* The parts of the state that prepare_data and the extractor do not touch.
InitTrainIdle ==
    /\ epochs = 0
    /\ epoch = 0
    /\ val_loss = 0
    /\ es = [patience |-> 0, delta |-> 0, counter |-> 0, best_score |-> <<>>,
             early_stop |-> FALSE, val_loss_min |-> <<>>, best_model_state |-> <<>>]
    /\ tensors = [t \in {"weight"} |-> 0]
    /\ hist = [calls |-> 0, checkpoints |-> 0, saved_value |-> <<>>]

InitDeviceIdle ==
    /\ measurements = <<>>
    /\ properties = {}
    /\ measurements_by_property = [p \in {} |-> <<>>]

InitGsoIdle ==
    /\ stblock_num = 0
    /\ dynamic_adjacencies = <<>>
    /\ gso = [kind |-> "none", ops |-> <<>>]

\* prepare_data is not running: no store, no locals, one run.
InitPrepIdle ==
    /\ include_sundays = FALSE
    /\ InitStore([store |-> <<>>, keys |-> {}, n_his |-> 1])
    /\ InitLocals
    /\ ex_arg = <<>>
    /\ seed = 0
    /\ rng = 0
    /\ run = 1
    /\ first_assigned = <<>>
    /\ first_splits = NoSplits

InitNoRerun ==
    /\ InitTrainIdle
    /\ InitDeviceIdle
    /\ InitGsoIdle
    /\ seed = 0
    /\ rng = 0
    /\ run = 1
    /\ first_assigned = <<>>
    /\ first_splits = NoSplits

Init ==
    /\ include_sundays \in BOOLEAN
    /\ \E n \in 0..MaxN : \E st \in Stores(n) : InitStore(st)
    /\ InitLocals
    /\ ex_arg = <<>>
    /\ pc = "prepare_data"
    /\ InitNoRerun

Next ==
    \/ SortTimeIndices
    \/ CreateBlocks
    \/ AssignBlock
    \/ SortSplits
    \/ Diagnostics
    \/ ExtractTrain
    \/ ExtractVal
    \/ ExtractTest

Spec == Init /\ [][Next]_vars

(***************************************************************************)
(* extract_features_labels driven alone, on any list over 0 .. MaxT.       *)
(***************************************************************************)
RECURSIVE ListOf(_)
ListOf(S) ==
    IF S = {} THEN <<>>
    ELSE LET x == CHOOSE x \in S : TRUE IN <<x>> \o ListOf(S \ {x})

\* The lists of distinct time indices passed as indices: ascending or descending.
IndexLists == UNION {{Sorted(ListOf(S)), Reverse(Sorted(ListOf(S)))} : S \in SUBSET (0..MaxT)}

\* Label vectors with a single 1.
LabelVectors == {[t \in 0..MaxT |-> IF t = h THEN 1 ELSE 0] : h \in 0..MaxT}

InitExtract ==
    /\ include_sundays = FALSE
    /\ n_his \in 1..MaxWindow
    /\ store_time_indices = [k \in 1..(MaxT + 1) |-> k - 1]
    /\ feature_matrices \in SUBSET (0..MaxT)
    /\ labels \in LabelVectors
    /\ InitLocals
    /\ ex_arg \in IndexLists
    /\ pc = "call"
    /\ InitNoRerun

\* The call extract_features_labels(torch_input, ex_arg, n_his).
ExtractCall ==
    /\ pc = "call"
    /\ Call(ex_arg)
    /\ pc' = IF raised' = "none" THEN "returned" ELSE "raised"
    /\ UNCHANGED <<ext_vars, args_vars, store_vars, time_indices, blocks, current_pattern, assigned,
                   split_vars, samples, rerun_vars>>

NextExtract == ExtractCall

SpecExtract == InitExtract /\ [][NextExtract]_vars

(***************************************************************************)
(* main run twice on the same store with the same seed.  numpy's global    *)
(* generator is a deterministic machine: np.random.seed sets its state     *)
(* from the seed alone, np.random.choice reads the state and advances it.  *)
(* The generator is modelled by a linear congruential one over RngMod      *)
(* states.                                                                 *)
(***************************************************************************)
\* The bug of not seeding: the generator keeps the state it happens to have.
NotSeeded(sd, state) == state

\* Line 736: np.random.seed(args.seed).
Seeded(sd, state) == sd % RngMod

\* The state after one draw.
RngNext(state) == (5 * state + 3) % RngMod

\* Line 197: the position np.random.choice picks among n elements.
RandIndex(state, n) == (state % n) + 1

InitRerun ==
    /\ include_sundays \in BOOLEAN
    /\ \E n \in 0..MaxRerunN : InitStore(
           [store |-> Ascending(n, FALSE), keys |-> SeqSet(Ascending(n, FALSE)), n_his |-> 1])
    /\ InitLocals
    /\ ex_arg = <<>>
    /\ pc = "main"
    /\ InitTrainIdle
    /\ InitDeviceIdle
    /\ InitGsoIdle
    /\ seed \in 0..MaxSeed
    /\ rng \in 0..(RngMod - 1)
    /\ run = 1
    /\ first_assigned = <<>>
    /\ first_splits = NoSplits

\* Lines 734-741.
MainSeed ==
    /\ pc = "main"
    /\ rng' = Seeded(seed, rng)
    /\ pc' = "prepare_data"
    /\ UNCHANGED <<ext_vars, args_vars, store_vars, time_indices, blocks, current_pattern, assigned,
                   split_vars, samples, call_vars, raised, run, first_assigned,
                   first_splits>>

\* Line 197 with the generator's state tracked.
AssignBlockSeeded ==
    /\ AssignBlockAt(RandIndex(rng, Len(Replenished(current_pattern))))
    /\ rng' = RngNext(rng)

\* The program is run again: its split assignment is kept for comparison, the
\* locals start afresh and the generator is in any state.
RunAgain ==
    /\ pc = "diagnostics"
    /\ run = 1
    /\ run' = 2
    /\ first_assigned' = assigned
    /\ first_splits' = Splits
    /\ rng' \in 0..(RngMod - 1)
    /\ time_indices' = <<>>
    /\ blocks' = <<>>
    /\ current_pattern' = <<>>
    /\ assigned' = <<>>
    /\ train_indices' = <<>>
    /\ val_indices' = <<>>
    /\ test_indices' = <<>>
    /\ pc' = "main"
    /\ UNCHANGED <<ext_vars, args_vars, store_vars, samples, call_vars, raised>>

NextRerun ==
    \/ MainSeed
    \/ SortTimeIndices
    \/ CreateBlocks
    \/ AssignBlockSeeded
    \/ SortSplits
    \/ RunAgain

SpecRerun == InitRerun /\ [][NextRerun]_vars

(***************************************************************************)
(* EarlyStopping and train_model.  The model has one parameter tensor,     *)
(* "weight"; tensors maps a tensor to its current value, and a state dict  *)
(* maps a parameter name to a tensor.  None and float('inf') are the empty *)
(* sequence, a value v is <<v>>.                                           *)
(***************************************************************************)
\* EarlyStopping.__init__
EarlyStoppingNew(patience, delta) ==
    [patience |-> patience, delta |-> delta, counter |-> 0, best_score |-> <<>>,
     early_stop |-> FALSE, val_loss_min |-> <<>>, best_model_state |-> <<>>]

\* model.state_dict(): the entries are the model's own tensors.
state_dict == [name \in {"weight"} |-> "weight"]

\* dict.copy(): a new dict with the same entries.
DictCopy(d) == d

\* EarlyStopping.save_checkpoint
save_checkpoint(stopper, loss) ==
    [stopper EXCEPT !.best_model_state = <<DictCopy(state_dict)>>,
                    !.val_loss_min = <<loss>>]

\* A comparison that also counts an equal score as no improvement.
NotImprovedOrEqual(stopper, score) ==
    score <= stopper.best_score[1] + stopper.delta

\* elif score < self.best_score + self.delta
NotImproved(stopper, score) ==
    score < stopper.best_score[1] + stopper.delta

\* EarlyStopping.__call__
EarlyStoppingCall(stopper, loss) ==
    LET score == 0 - loss
    IN  IF stopper.best_score = <<>>
        THEN save_checkpoint([stopper EXCEPT !.best_score = <<score>>], loss)
        ELSE IF NotImproved(stopper, score)
        THEN [stopper EXCEPT !.counter = @ + 1,
                             !.early_stop = IF stopper.counter + 1 >= stopper.patience
                                            THEN TRUE ELSE @]
        ELSE [save_checkpoint([stopper EXCEPT !.best_score = <<score>>], loss)
                  EXCEPT !.counter = 0]

\* The call runs save_checkpoint.
Checkpoints(stopper, loss) ==
    \/ stopper.best_score = <<>>
    \/ ~NotImproved(stopper, 0 - loss)

\* The history after a call: one more call, and, when the call checkpoints,
\* one more checkpoint and the value the parameter has at that moment.
Recorded(h, stopper, loss) ==
    [calls |-> h.calls + 1,
     checkpoints |-> IF Checkpoints(stopper, loss) THEN h.checkpoints + 1 ELSE h.checkpoints,
     saved_value |-> IF Checkpoints(stopper, loss) THEN <<tensors["weight"]>> ELSE h.saved_value]

\* A loop that goes on after early_stop.
NoBreak(stopper) == FALSE

\* if early_stopping.early_stop: break
BreakTaken(stopper) == stopper.early_stop

\* The training phase of one epoch: optimizer.step() updates the parameter
\* in place.
TrainEpoch ==
    /\ pc = "epoch"
    /\ epoch < epochs
    /\ epoch' = epoch + 1
    /\ \E step \in 0..1 : tensors' = [tensors EXCEPT !["weight"] = @ + step]
    /\ pc' = "validate"
    /\ UNCHANGED <<prep_vars, device_vars, gso_vars, epochs, val_loss, es, hist>>

\* The validation phase.
Validate ==
    /\ pc = "validate"
    /\ val_loss' \in 0..MaxLoss
    /\ pc' = "early_stopping"
    /\ UNCHANGED <<prep_vars, device_vars, gso_vars, epochs, epoch, es, tensors, hist>>

\* early_stopping(val_loss, model) and the break.
CheckEarlyStopping ==
    /\ pc = "early_stopping"
    /\ es' = EarlyStoppingCall(es, val_loss)
    /\ hist' = Recorded(hist, es, val_loss)
    /\ pc' = IF BreakTaken(es') THEN "load" ELSE "epoch"
    /\ UNCHANGED <<prep_vars, device_vars, gso_vars, epochs, epoch, val_loss, tensors>>

\* model.load_state_dict(early_stopping.best_model_state), after the break or
\* after the last epoch; load_state_dict(None) raises.
LoadBest ==
    /\ \/ pc = "load"
       \/ pc = "epoch" /\ ~(epoch < epochs)
    /\ IF es.best_model_state = <<>>
       THEN /\ pc' = "train_raised"
            /\ UNCHANGED tensors
       ELSE /\ tensors' = [tensors EXCEPT
                              !["weight"] = tensors[es.best_model_state[1]["weight"]]]
            /\ pc' = "trained"
    /\ UNCHANGED <<prep_vars, device_vars, gso_vars, epochs, epoch, val_loss, es, hist>>

InitTrain ==
    /\ InitPrepIdle
    /\ InitDeviceIdle
    /\ InitGsoIdle
    /\ epochs \in 0..MaxEpochs
    /\ epoch = 0
    /\ val_loss = 0
    /\ \E patience \in 0..MaxPatience : es = EarlyStoppingNew(patience, 0)
    /\ tensors = [t \in {"weight"} |-> 0]
    /\ hist = [calls |-> 0, checkpoints |-> 0, saved_value |-> <<>>]
    /\ pc = "epoch"

NextTrain ==
    \/ TrainEpoch
    \/ Validate
    \/ CheckEarlyStopping
    \/ LoadBest

\* train_model runs to its end: no step of it waits for anything.
SpecTrain == InitTrain /\ [][NextTrain]_vars /\ WF_vars(NextTrain)

\* An EarlyStopping object called directly.
StopperCalled ==
    /\ pc = "stopper"
    /\ hist.calls < MaxCalls
    /\ val_loss' \in 0..MaxLoss
    /\ es' = EarlyStoppingCall(es, val_loss')
    /\ hist' = Recorded(hist, es, val_loss')
    /\ UNCHANGED <<prep_vars, device_vars, gso_vars, epochs, epoch, tensors, pc>>

InitStopper ==
    /\ InitPrepIdle
    /\ InitDeviceIdle
    /\ InitGsoIdle
    /\ epochs = 0
    /\ epoch = 0
    /\ val_loss = 0
    /\ \E patience \in 0..MaxPatience, delta \in 0..MaxDelta :
           es = EarlyStoppingNew(patience, delta)
    /\ tensors = [t \in {"weight"} |-> 0]
    /\ hist = [calls |-> 0, checkpoints |-> 0, saved_value |-> <<>>]
    /\ pc = "stopper"

NextStopper == StopperCalled

SpecStopper == InitStopper /\ [][NextStopper]_vars

(***************************************************************************)
(* Device.  A measurement is its URI and its property_type; "None" stands  *)
(* for None and "" for the empty URIRef, and both are false in a condition.*)
(***************************************************************************)
PropertyTypes == {"None", "", "temperature", "humidity"}

\* if measurement.property_type
Truthy(property_type) == property_type \notin {"None", ""}

\* A lookup that always starts a new list under the key.
SetFresh(d, key) ==
    [k \in DOMAIN d \cup {key} |-> IF k = key THEN <<>> ELSE d[k]]

\* dict.setdefault(key, []): the dict after the call.
SetDefault(d, key) ==
    [k \in DOMAIN d \cup {key} |-> IF k \in DOMAIN d THEN d[k] ELSE <<>>]

\* Device.get_measurements_by_property
get_measurements_by_property(property_type) ==
    SelectSeq(measurements, LAMBDA m : m.property_type = property_type)

\* Device.add_measurement
add_measurement(measurement) ==
    /\ measurements' = Append(measurements, measurement)
    /\ IF Truthy(measurement.property_type)
       THEN /\ properties' = properties \cup {measurement.property_type}
            /\ measurements_by_property' =
                   LET d == SetDefault(measurements_by_property, measurement.property_type)
                   IN  [d EXCEPT ![measurement.property_type] = Append(@, measurement)]
       ELSE UNCHANGED <<properties, measurements_by_property>>

AddMeasurement ==
    /\ pc = "device"
    /\ Len(measurements) < MaxMeasurements
    /\ \E uri \in 1..MaxUris, property_type \in PropertyTypes :
           add_measurement([meas_uri |-> uri, property_type |-> property_type])
    /\ UNCHANGED <<prep_vars, train_vars, gso_vars, pc>>

InitDevice ==
    /\ InitPrepIdle
    /\ InitTrainIdle
    /\ InitGsoIdle
    /\ measurements = <<>>
    /\ properties = {}
    /\ measurements_by_property = [p \in {} |-> <<>>]
    /\ pc = "device"

NextDevice == AddMeasurement

SpecDevice == InitDevice /\ [][NextDevice]_vars

(***************************************************************************)
(* The graph shift operators.  prepare_data builds one operator from the   *)
(* adjacency matrix of the store; the builder's dynamic mode takes the     *)
(* time-varying adjacency matrices in chronological order.  An operator is *)
(* identified by the adjacency matrix it is built from.                    *)
(***************************************************************************)
\* The names of the time-varying adjacency matrices.
AdjacencyNames == {"dynamic_a", "dynamic_b"}

\* gso = prepare_graph_data(adj_sparse, ...)
Operator(adjacency) == [of |-> adjacency]

static_operator == Operator("adjacency_matrix")

\* A padding that repeats the last dynamic operator.
PaddedByLast(ops, n) ==
    ops \o [k \in 1..(n - Len(ops)) |->
               IF ops = <<>> THEN static_operator ELSE ops[Len(ops)]]

\* The list is padded by repeating the static operator until it holds n
\* operators.
Padded(ops, n) ==
    ops \o [k \in 1..(n - Len(ops)) |-> static_operator]

\* Up to n time-varying adjacency matrices, in chronological order.
Taken(adjacencies, n) ==
    SubSeq(adjacencies, 1, IF Len(adjacencies) < n THEN Len(adjacencies) ELSE n)

DynamicOperators(adjacencies, n) ==
    LET taken == Taken(adjacencies, n)
    IN  Padded([k \in 1..Len(taken) |-> Operator(taken[k])], n)

\* Static mode: exactly one operator, from the single adjacency matrix.
BuildStaticGso ==
    /\ pc = "gso"
    /\ gso' = [kind |-> "single", ops |-> <<static_operator>>]
    /\ pc' = "gso_built"
    /\ UNCHANGED <<prep_vars, train_vars, device_vars, stblock_num, dynamic_adjacencies>>

\* Dynamic mode: an ordered list of operators.
BuildDynamicGso ==
    /\ pc = "gso"
    /\ gso' = [kind |-> "list", ops |-> DynamicOperators(dynamic_adjacencies, stblock_num)]
    /\ pc' = "gso_built"
    /\ UNCHANGED <<prep_vars, train_vars, device_vars, stblock_num, dynamic_adjacencies>>

AdjacencyLists ==
    UNION {[1..n -> AdjacencyNames] : n \in 0..MaxDyn}

InitGso ==
    /\ InitPrepIdle
    /\ InitTrainIdle
    /\ InitDeviceIdle
    /\ stblock_num \in 1..MaxStBlocks
    /\ dynamic_adjacencies \in AdjacencyLists
    /\ gso = [kind |-> "none", ops |-> <<>>]
    /\ pc = "gso"

NextGso ==
    \/ BuildStaticGso
    \/ BuildDynamicGso

SpecGso == InitGso /\ [][NextGso]_vars

(***************************************************************************)
(* Properties of the block partitioner.                                    *)
(***************************************************************************)
\* The assignment loop of prepare_data has ended.
AssignmentDone ==
    \/ pc = "assign" /\ Len(assigned) = Len(blocks)
    \/ pc \in {"diagnostics", "extract_train", "extract_val", "extract_test", "prepared"}
    \/ pc = "raised"

\* The splits have been sorted (lines 214-217 have run).
SplitsSorted == AssignmentDone /\ pc # "assign"

AllSplitIndices == train_indices \o val_indices \o test_indices

\* C1: after the block assignment every time index of the input is in exactly
\* one of train_indices, val_indices, test_indices, exactly once, and the three
\* lists hold nothing else.
C1_Partition ==
    AssignmentDone =>
        /\ SeqSet(AllSplitIndices) = SeqSet(store_time_indices)
        /\ \A t \in SeqSet(store_time_indices) : Count(AllSplitIndices, t) = 1

C1_Witness ==
    /\ pc = "assign"
    /\ Len(assigned) = Len(blocks)
    /\ Len(blocks) >= 3
    /\ train_indices # <<>> /\ val_indices # <<>> /\ test_indices # <<>>
    /\ store_time_indices # time_indices

\* C2: every block that has been assigned lies whole in one split: all its
\* time indices are in that split's list and none is in another list.
C2_BlocksWhole ==
    pc \in {"assign", "diagnostics", "extract_train", "extract_val", "extract_test",
            "prepared"} =>
        \A j \in 1..Len(assigned) :
            \E name \in SplitNames :
                /\ SeqSet(blocks[j]) \subseteq SeqSet(Splits[name])
                /\ \A other \in SplitNames \ {name} :
                       SeqSet(blocks[j]) \cap SeqSet(Splits[other]) = {}

C2_Witness ==
    /\ pc = "diagnostics"
    /\ Len(blocks) >= 6
    /\ Len(blocks[Len(blocks)]) \in 2..(block_size - 1)
    /\ val_indices # <<>> /\ test_indices # <<>>

\* The split types drawn since the pattern was last replenished.
CurrentGroup ==
    LET j == Len(assigned)
        used == IF j = 0 THEN 0 ELSE IF j % 5 = 0 THEN 5 ELSE j % 5
    IN  SubSeq(assigned, j - used + 1, j)

\* C3: the rotation is consumed without replacement and refilled only when it
\* is empty: the pattern left and the split types drawn since the last refill
\* make up {train, train, train, test, val}, and each complete group of five
\* blocks 5k+1 .. 5k+5 has three train blocks, one test block and one val block.
C3_Rotation ==
    pc \in {"assign", "diagnostics", "extract_train", "extract_val", "extract_test",
            "prepared"} =>
        /\ \A v \in SplitNames :
               Count(current_pattern, v) + Count(CurrentGroup, v) = Count(sampling_pattern, v)
        /\ \A k \in 0..(Len(assigned) \div 5) :
               5 * k + 5 <= Len(assigned) =>
                   LET group == SubSeq(assigned, 5 * k + 1, 5 * k + 5)
                   IN  /\ Count(group, "train") = 3
                       /\ Count(group, "test") = 1
                       /\ Count(group, "val") = 1

C3_Witness ==
    /\ Len(assigned) = 10
    /\ assigned[1] # "train"
    /\ assigned[6] = "train" /\ assigned[7] = "train" /\ assigned[8] = "train"

\* C4: the blocks are the contiguous runs of block_size elements of the sorted
\* time indices, in order; only the last may be shorter, none is empty, and
\* N indices give ceil(N / block_size) blocks.
C4_Blocks ==
    pc \in {"assign", "diagnostics", "extract_train", "extract_val", "extract_test",
            "prepared", "raised"} =>
        LET L == block_size
            N == Len(store_time_indices)
        IN  /\ IsAscending(time_indices)
            /\ SeqSet(time_indices) = SeqSet(store_time_indices)
            /\ Len(blocks) = (N + L - 1) \div L
            /\ \A j \in 1..Len(blocks) :
                   /\ Len(blocks[j]) \in 1..L
                   /\ j < Len(blocks) => Len(blocks[j]) = L
                   /\ \A i \in 1..Len(blocks[j]) : blocks[j][i] = time_indices[(j - 1) * L + i]
            /\ blocks # <<>> => (Len(blocks) - 1) * L + Len(blocks[Len(blocks)]) = N

C4_Witness ==
    /\ pc = "assign"
    /\ Len(store_time_indices) = 42
    /\ block_size = 6
    /\ Len(blocks) = 7

\* C10: once the splits are sorted, each split's list is in strictly
\* ascending order, whatever the order of the draws was.
C10_SplitsAscending ==
    SplitsSorted =>
        /\ IsAscending(train_indices)
        /\ IsAscending(val_indices)
        /\ IsAscending(test_indices)

C10_Witness ==
    /\ pc = "diagnostics"
    /\ Len(blocks) >= 5
    /\ assigned[1] = "train" /\ assigned[2] # "train" /\ assigned[3] = "train"
    /\ \E k \in 1..(Len(train_indices) - 1) : train_indices[k + 1] > train_indices[k] + 1

\* C8 (the claim; the code does otherwise): when the assignment leaves a split
\* empty, the run ends with a data-insufficiency condition of its own.
C8_EmptySplitReported ==
    (AssignmentDone /\ pc \notin {"assign", "diagnostics"} /\ blocks # <<>>
        /\ (train_indices = <<>> \/ val_indices = <<>> \/ test_indices = <<>>)) =>
        (pc = "raised" /\ raised = "DataInsufficiency")

\* C11: every time index in the window of a sample extracted for a split
\* belongs to that split: no window mixes timesteps of different splits.
C11_NoLeakage ==
    \A name \in DOMAIN samples :
        \A k \in 1..Len(samples[name].X) :
            /\ Len(samples[name].X[k]) = n_his
            /\ SeqSet(samples[name].X[k]) \subseteq SeqSet(Splits[name])
            /\ \A other \in SplitNames \ {name} :
                   SeqSet(samples[name].X[k]) \cap SeqSet(Splits[other]) = {}

C11_Witness ==
    /\ pc = "prepared"
    /\ n_his = 2
    /\ Len(blocks) = 3
    /\ Len(samples["train"].X) >= 2
    /\ Len(samples["val"].X) >= 2
    /\ Len(samples["test"].X) >= 2

\* One step of the assignment loop, for the block it assigns (short or full):
\* the split type is one of the slots left in the pattern (replenished when
\* empty), exactly that one slot is consumed, and the whole block is appended
\* to the list of that split type and to no other.
AssignedByDraw ==
    LET j          == Len(assigned')
        split_type == assigned'[j]
        pattern    == Replenished(current_pattern)
        after      == [train |-> train_indices', val |-> val_indices', test |-> test_indices']
    IN  /\ j = Len(assigned) + 1
        /\ Count(pattern, split_type) >= 1
        /\ Len(current_pattern') = Len(pattern) - 1
        /\ \A v \in SplitNames :
               Count(current_pattern', v) =
                   Count(pattern, v) - (IF v = split_type THEN 1 ELSE 0)
        /\ \A v \in SplitNames :
               after[v] = IF v = split_type THEN Splits[v] \o blocks[j] ELSE Splits[v]

\* C13: the final block, also when it is shorter than block_size, is assigned
\* by the same draw-and-remove step as every other block and consumes one slot
\* of the rotation.
C13_ShortBlockSameStep ==
    [][(pc = "assign" /\ assigned' # assigned) => AssignedByDraw]_vars

C13_Witness ==
    /\ pc = "assign"
    /\ Len(assigned) = Len(blocks)
    /\ Len(blocks) >= 6
    /\ Len(blocks[Len(blocks)]) < block_size
    /\ assigned[Len(blocks)] = "val"
    /\ Len(current_pattern) = 4

(***************************************************************************)
(* prepare_data and the extractor driven alone, side by side.              *)
(***************************************************************************)
InitAll == Init \/ InitExtract

NextAll == Next \/ NextExtract

SpecAll == InitAll /\ [][NextAll]_vars

\* C14: no step of the partitioning or of a call of extract_features_labels
\* changes the store's time-index list, the keys of feature_matrices or the
\* labels, and a call leaves the list it was passed as it was.
C14_StoreImmutable ==
    [][/\ store_time_indices' = store_time_indices
       /\ feature_matrices' = feature_matrices
       /\ labels' = labels
       /\ pc = "call" => ex_arg' = ex_arg
       /\ pc = "extract_train" => (ex_arg' = train_indices /\ train_indices' = train_indices)
       /\ pc = "extract_val" => (ex_arg' = val_indices /\ val_indices' = val_indices)
       /\ pc = "extract_test" => (ex_arg' = test_indices /\ test_indices' = test_indices)]_vars

C14_Witness ==
    /\ pc = "prepared"
    /\ store_time_indices # time_indices
    /\ feature_matrices # SeqSet(store_time_indices)
    /\ Len(samples["test"].X) >= 1

(***************************************************************************)
(* Properties of the repeated run.                                         *)
(***************************************************************************)
\* C5: the second run with the same seed on the same store draws the same
\* split type for every block, and ends with the same three lists.
C5_SameSeedSameSplits ==
    run = 2 =>
        /\ Len(assigned) <= Len(first_assigned)
        /\ assigned = SubSeq(first_assigned, 1, Len(assigned))
        /\ pc = "diagnostics" => (assigned = first_assigned /\ Splits = first_splits)

C5_Witness ==
    /\ run = 2
    /\ pc = "diagnostics"
    /\ Len(assigned) >= 6
    /\ assigned[1] # "train"
    /\ rng # 0

(***************************************************************************)
(* Properties of extract_features_labels.                                  *)
(***************************************************************************)
\* The call of extract_features_labels has ended.
CallEnded == pc \in {"returned", "raised"}

\* The 1-based positions of the sorted list at which a window of n_his
\* timesteps ends whose every timestep has a FeatureMatrix.
CompletePositions ==
    {p \in n_his..Len(ex_indices) :
        \A j \in (p - n_his + 1)..p : ex_indices[j] \in feature_matrices}

\* C6: the extractor works on the index list in ascending order and emits, in
\* ascending order of the position, exactly one sample for each position whose
\* window has every FeatureMatrix, and none for the others; the sample's
\* window is the n_his indices ending at the position and its label is the
\* label of the position's time index.
C6_Samples ==
    CallEnded =>
        /\ IsAscending(ex_indices)
        /\ Len(ex_indices) = Len(ex_arg)
        /\ SeqSet(ex_indices) = SeqSet(ex_arg)
        /\ Len(X_list) = Cardinality(CompletePositions)
        /\ Len(y_list) = Cardinality(CompletePositions)
        /\ \A p \in CompletePositions :
               LET k == Cardinality({q \in CompletePositions : q <= p})
               IN  /\ X_list[k] = [j \in 1..n_his |-> ex_indices[p - n_his + j]]
                   /\ y_list[k] = labels[ex_indices[p]]

C6_Witness ==
    /\ pc = "returned"
    /\ n_his = 2
    /\ ex_arg = <<4, 3, 2, 1, 0>>
    /\ feature_matrices = {0, 1, 3, 4}
    /\ X_list = <<<<0, 1>>, <<3, 4>>>>
    /\ y_list = <<0, 1>>

\* C7 (the claim; the code does otherwise): when no window survives, the call
\* ends with an empty-result condition of its own.
C7_EmptyResultReported ==
    (CallEnded /\ X_list = <<>>) => raised = "InsufficientData"

\* C9 (the claim; the code does otherwise): every emitted window is a run of
\* consecutive time indices t, t + 1, ..., t + n_his - 1.
C9_WindowsConsecutive ==
    CallEnded =>
        \A k \in 1..Len(X_list) :
            \A j \in 1..(n_his - 1) : X_list[k][j + 1] = X_list[k][j] + 1

(***************************************************************************)
(* Properties of the graph shift operators.                                *)
(***************************************************************************)
\* C12: in dynamic mode the output is an ordered list of exactly stblock_num
\* operators: the operators of the provided adjacency matrices in their
\* order, and, when fewer than stblock_num are provided, the static operator
\* in every missing trailing entry.
C12_DynamicPadded ==
    (pc = "gso_built" /\ gso.kind = "list") =>
        /\ Len(gso.ops) = stblock_num
        /\ \A k \in 1..stblock_num :
               gso.ops[k] = IF k <= Len(dynamic_adjacencies)
                            THEN Operator(dynamic_adjacencies[k])
                            ELSE static_operator

C12_Witness ==
    /\ pc = "gso_built"
    /\ gso.kind = "list"
    /\ stblock_num = 4
    /\ Len(dynamic_adjacencies) = 2
    /\ gso.ops[3] = static_operator
    /\ gso.ops[4] = static_operator

(***************************************************************************)
(* Properties of EarlyStopping and train_model.                            *)
(***************************************************************************)
\* C15 (the claim; the code does otherwise): when train_model returns, the
\* model's parameter has the value it had when save_checkpoint last ran.
C15_BestRestored ==
    pc = "trained" => tensors["weight"] = hist.saved_value[1]

\* This step is a call of the EarlyStopping object.
IsCall == hist'.calls = hist.calls + 1

\* The call checkpoints: the loss and a model state are saved.
Checkpointed ==
    /\ hist'.checkpoints = hist.checkpoints + 1
    /\ es'.val_loss_min = <<val_loss'>>
    /\ es'.best_model_state # <<>>

NotCheckpointed ==
    /\ hist'.checkpoints = hist.checkpoints
    /\ es'.val_loss_min = es.val_loss_min
    /\ es'.best_model_state = es.best_model_state

\* C16: the first call records the score and checkpoints; afterwards a call
\* with -val_loss < best_score + delta adds one to counter and leaves
\* best_score, any other call sets best_score to the new score, checkpoints
\* and resets counter to 0; early_stop becomes true exactly at a call that
\* raises counter to patience or more, and never becomes false again.
C16_EarlyStopping ==
    [][/\ IsCall =>
            LET score == 0 - val_loss'
            IN  IF es.best_score = <<>>
                THEN /\ es'.best_score = <<score>>
                     /\ Checkpointed
                     /\ es'.counter = es.counter
                     /\ es'.early_stop = es.early_stop
                ELSE IF score < es.best_score[1] + es.delta
                THEN /\ es'.counter = es.counter + 1
                     /\ es'.best_score = es.best_score
                     /\ NotCheckpointed
                     /\ es'.early_stop = (es.early_stop \/ es'.counter >= es.patience)
                ELSE /\ es'.best_score = <<score>>
                     /\ Checkpointed
                     /\ es'.counter = 0
                     /\ es'.early_stop = es.early_stop
       /\ es.early_stop => es'.early_stop
       /\ es'.patience = es.patience /\ es'.delta = es.delta]_vars

C16_Witness ==
    /\ pc = "stopper"
    /\ es.patience = 2
    /\ es.delta = 1
    /\ hist.calls = 4
    /\ hist.checkpoints = 2
    /\ es.counter = 2
    /\ es.early_stop

\* The number of early_stopping calls made when epoch epochs were begun.
CallsDue ==
    IF pc \in {"validate", "early_stopping"} THEN epoch - 1 ELSE epoch

\* C17: the epoch loop ends: at most args.epochs epochs are run, early_stopping
\* is called once per epoch, after the validation pass, no epoch is begun once
\* early_stop is true, and train_model reaches its end.
C17_LoopTerminates ==
    /\ [](epoch <= epochs /\ hist.calls = CallsDue)
    /\ [][es.early_stop => epoch' = epoch]_vars
    /\ <>(pc \in {"trained", "train_raised"})

C17_Witness ==
    /\ pc = "trained"
    /\ epochs = 4
    /\ epoch = 2
    /\ es.early_stop
    /\ hist.calls = 2

(***************************************************************************)
(* Properties of Device.                                                   *)
(***************************************************************************)
\* C18: after any sequence of add_measurement calls, properties is the key
\* set of measurements_by_property, the list kept under each property type p
\* is, in the same order, the list of the measurements whose property_type is
\* p, and a measurement with no property_type is in measurements only.
C18_IndexConsistent ==
    /\ properties = DOMAIN measurements_by_property
    /\ \A p \in properties :
           measurements_by_property[p] = get_measurements_by_property(p)
    /\ "None" \notin properties
    /\ \A p \in DOMAIN measurements_by_property :
           \A k \in 1..Len(measurements_by_property[p]) :
               measurements_by_property[p][k].property_type # "None"

C18_Witness ==
    /\ Len(measurements) = 4
    /\ measurements[1].property_type = "temperature"
    /\ measurements[2].property_type = "None"
    /\ measurements[3].property_type = "humidity"
    /\ measurements[4] = [meas_uri |-> 2, property_type |-> "temperature"]
    /\ Len(measurements_by_property["temperature"]) = 2
    /\ properties = {"temperature", "humidity"}

====
